---- MODULE Spec2Model ----
(***************************************************************************)
(* Multi-weighted grid path finding (src/src/finder.py,                    *)
(* src/src/cost_function.py) and the isometric coordinate transform        *)
(* (src/src/coordinates.py).                                               *)
(*                                                                         *)
(* Numbers.  The program computes in floats.  For the costs of the search  *)
(* the model computes the same expressions exactly, in fixed point:        *)
(*   - a cost is an integer count of 10^-5 (1.0 is 100000);                *)
(*   - base_cost, ascent_cost, descent_cost of a terrain are in tenths,    *)
(*     diagonal_factor in thousandths (1.414 is 1414);                     *)
(*   - an f-score is a pair <<hi, lo>> worth hi*10^-5 + lo*10^-12 with     *)
(*     0 <= lo < 10^7, because the octile constant 1.41421356237 - 1 has   *)
(*     eleven decimals.                                                    *)
(* The rounding error of float costs is not modelled.  The coordinate      *)
(* transform is computed in binary64 as the program does (see below).      *)
(***************************************************************************)
EXTENDS Integers, Sequences, FiniteSets, TLC

\* ------------------------------------------------------------------ bounds

\* Grid dimensions of the maps explored.
MaxWidth == 3
MaxHeight == 2
\* Largest number of impassable cells placed on a map.
MaxWalls == 2
\* Cap on nodes_expanded per search (reached only when edge costs are negative).
MaxExpanded == 12
\* Largest grid x and y, and largest elevation, given to the coordinate transform.
MaxCoord == 3
MaxElevation == 2

\* --------------------------------------------------------------- numbers

CostScale == 10^5
LoBase == 10^7

Abs(n) == IF n < 0 THEN -n ELSE n
Max2(a, b) == IF a > b THEN a ELSE b
Min2(a, b) == IF a < b THEN a ELSE b

\* <<hi, lo>> with lo brought back into [0, LoBase).
NumNorm(hi, lo) == <<hi + (lo \div LoBase), lo % LoBase>>
NumOfCost(c) == <<c, 0>>
NumAdd(a, b) == NumNorm(a[1] + b[1], a[2] + b[2])
NumLess(a, b) == a[1] < b[1] \/ (a[1] = b[1] /\ a[2] < b[2])
\* The 1e-9 of the stale test.
Tolerance == <<0, 1000>>

\* ------------------------------------------------------- terrain table

\* TerrainCost of plain terrain, the fallback of get_terrain_cost.
DEFAULT_TERRAIN ==
    [base_cost |-> 10, ascent_cost |-> 20, descent_cost |-> 5,
     diagonal_factor |-> 1414, passable |-> TRUE]

\* The rows of the terrain table the tests state in full: plain, forest, wall.
TERRAIN_COSTS ==
    [c \in {".", "F", "#"} |->
        CASE c = "." -> DEFAULT_TERRAIN
          [] c = "F" -> [base_cost |-> 20, ascent_cost |-> 15, descent_cost |-> 10,
                         diagonal_factor |-> 1414, passable |-> TRUE]
          [] c = "#" -> [base_cost |-> 10, ascent_cost |-> 20, descent_cost |-> 5,
                         diagonal_factor |-> 1414, passable |-> FALSE]]

get_terrain_cost(code) ==
    IF code \in DOMAIN TERRAIN_COSTS THEN TERRAIN_COSTS[code] ELSE DEFAULT_TERRAIN

\* ------------------------------------------------------------ cost model

\* A float result: float('inf') or a finite cost.
Infinity == [inf |-> TRUE, val |-> 0]
Finite(c) == [inf |-> FALSE, val |-> c]

\* CostConfig(priority_weight, max_cost_cap).
CostConfig(w, cap) == [priority_weight |-> w, max_cost_cap |-> cap]

is_diagonal_move(u, v) ==
    LET dx == Abs(v[1] - u[1])
        dy == Abs(v[2] - u[2])
    IN  dx = 1 /\ dy = 1

\* calculate_edge_cost with the elevation difference taken from v to u.
calculate_edge_cost_reversed_delta(u, v, game_map, cfg, allow_diag) ==
    LET terrain == get_terrain_cost(game_map.terrain[v])
        is_diagonal == is_diagonal_move(u, v)
        kappa == IF is_diagonal THEN terrain.diagonal_factor ELSE 1000
        delta_h == game_map.elevation[u] - game_map.elevation[v]
        total_cost == terrain.base_cost * kappa * 10
                      + terrain.ascent_cost * Max2(0, delta_h) * 10000
                      + terrain.descent_cost * Max2(0, -delta_h) * 10000
                      + cfg.priority_weight * game_map.priority[v]
    IN  IF ~terrain.passable THEN Infinity
        ELSE IF is_diagonal /\ ~allow_diag THEN Infinity
        ELSE IF total_cost > cfg.max_cost_cap THEN Finite(cfg.max_cost_cap)
        ELSE Finite(total_cost)

\* calculate_edge_cost with the cap applied before the priority component is added.
calculate_edge_cost_cap_before_priority(u, v, game_map, cfg, allow_diag) ==
    LET terrain == get_terrain_cost(game_map.terrain[v])
        is_diagonal == is_diagonal_move(u, v)
        kappa == IF is_diagonal THEN terrain.diagonal_factor ELSE 1000
        delta_h == game_map.elevation[v] - game_map.elevation[u]
        movement == terrain.base_cost * kappa * 10
                    + terrain.ascent_cost * Max2(0, delta_h) * 10000
                    + terrain.descent_cost * Max2(0, -delta_h) * 10000
        priority_component == cfg.priority_weight * game_map.priority[v]
    IN  IF ~terrain.passable THEN Infinity
        ELSE IF is_diagonal /\ ~allow_diag THEN Infinity
        ELSE IF movement > cfg.max_cost_cap
             THEN Finite(cfg.max_cost_cap + priority_component)
        ELSE Finite(movement + priority_component)

\* calculate_edge_cost with the cap applied before the passability checks.
calculate_edge_cost_cap_first(u, v, game_map, cfg, allow_diag) ==
    LET terrain == get_terrain_cost(game_map.terrain[v])
        is_diagonal == is_diagonal_move(u, v)
        kappa == IF is_diagonal THEN terrain.diagonal_factor ELSE 1000
        delta_h == game_map.elevation[v] - game_map.elevation[u]
        total_cost == terrain.base_cost * kappa * 10
                      + terrain.ascent_cost * Max2(0, delta_h) * 10000
                      + terrain.descent_cost * Max2(0, -delta_h) * 10000
                      + cfg.priority_weight * game_map.priority[v]
    IN  IF total_cost > cfg.max_cost_cap THEN Finite(cfg.max_cost_cap)
        ELSE IF ~terrain.passable THEN Infinity
        ELSE IF is_diagonal /\ ~allow_diag THEN Infinity
        ELSE Finite(total_cost)

\* Edge cost from u to v, in 10^-5.
calculate_edge_cost(u, v, game_map, cfg, allow_diag) ==
    LET terrain == get_terrain_cost(game_map.terrain[v])
        is_diagonal == is_diagonal_move(u, v)
        kappa == IF is_diagonal THEN terrain.diagonal_factor ELSE 1000
        base_component == terrain.base_cost * kappa * 10
        delta_h == game_map.elevation[v] - game_map.elevation[u]
        ascent_component == terrain.ascent_cost * Max2(0, delta_h) * 10000
        descent_component == terrain.descent_cost * Max2(0, -delta_h) * 10000
        priority_component == cfg.priority_weight * game_map.priority[v]
        total_cost == base_component + ascent_component + descent_component
                      + priority_component
    IN  IF ~terrain.passable THEN Infinity
        ELSE IF is_diagonal /\ ~allow_diag THEN Infinity
        ELSE IF total_cost > cfg.max_cost_cap THEN Finite(cfg.max_cost_cap)
        ELSE Finite(total_cost)

\* Cells of a map, as <<x, y>>.
CellsOf(w, h) == (0 .. w - 1) \X (0 .. h - 1)

\* Minimum base cost over the passable cells of the map, in tenths; 1.0 if none.
get_minimum_base_cost(game_map) ==
    LET cells == CellsOf(game_map.width, game_map.height)
        pass == {c \in cells : get_terrain_cost(game_map.terrain[c]).passable}
        costs == {get_terrain_cost(game_map.terrain[c]).base_cost : c \in pass}
    IN  IF costs = {} THEN 10
        ELSE CHOOSE m \in costs : \A k \in costs : m <= k

\* ------------------------------------------------------------- heuristics

\* (dx + dy) * min_cost as an f-score; min_cost is in tenths.
manhattan_heuristic(pos, goal, min_cost) ==
    LET dx == Abs(pos[1] - goal[1])
        dy == Abs(pos[2] - goal[2])
    IN  NumOfCost((dx + dy) * min_cost * 10000)

\* (max(dx,dy) + (1.41421356237 - 1) * min(dx,dy)) * min_cost as an f-score:
\* 0.41421356237 tenths are 4142 * 10^-5 + 1356237 * 10^-12.
octile_heuristic(pos, goal, min_cost) ==
    LET dx == Abs(pos[1] - goal[1])
        dy == Abs(pos[2] - goal[2])
    IN  NumNorm(Max2(dx, dy) * min_cost * 10000 + Min2(dx, dy) * min_cost * 4142,
                Min2(dx, dy) * min_cost * 1356237)

DIRECTIONS_4 == << <<0, -1>>, <<0, 1>>, <<-1, 0>>, <<1, 0>> >>
DIRECTIONS_8 == DIRECTIONS_4 \o << <<-1, -1>>, <<-1, 1>>, <<1, -1>>, <<1, 1>> >>

\* Sequence s without the elements that fail Keep.
RECURSIVE FilterSeq(_, _)
FilterSeq(s, keep) ==
    IF s = << >> THEN << >>
    ELSE (IF Head(s) \in keep THEN <<Head(s)>> ELSE << >>) \o FilterSeq(Tail(s), keep)

\* get_neighbors going through the directions from the last to the first.
get_neighbors_backwards(pos, game_map, allow_diag) ==
    LET directions == IF allow_diag THEN DIRECTIONS_8 ELSE DIRECTIONS_4
        cand == [i \in 1 .. Len(directions) |->
                    <<pos[1] + directions[Len(directions) + 1 - i][1],
                      pos[2] + directions[Len(directions) + 1 - i][2]>>]
        ok == {c \in CellsOf(game_map.width, game_map.height) :
                    get_terrain_cost(game_map.terrain[c]).passable}
    IN  FilterSeq(cand, ok)

\* In-bounds passable neighbours of pos, in direction order.
get_neighbors(pos, game_map, allow_diag) ==
    LET directions == IF allow_diag THEN DIRECTIONS_8 ELSE DIRECTIONS_4
        cand == [i \in 1 .. Len(directions) |->
                    <<pos[1] + directions[i][1], pos[2] + directions[i][2]>>]
        ok == {c \in CellsOf(game_map.width, game_map.height) :
                    get_terrain_cost(game_map.terrain[c]).passable}
    IN  FilterSeq(cand, ok)

\* ------------------------------------------------------- binary64 floats
\*
\* The coordinate layer computes in Python floats.  A float is modelled as the
\* dyadic rational m * 2^e it is, as [m, e] with m odd (or m = 0, e = 0).  The
\* operations return what round-to-nearest returns, and are defined on the
\* operands for which that result can be written with a small m: a sum that is
\* exact, or a sum whose smaller operand is below a quarter of the larger
\* operand's unit in the last place and so is absorbed; a quotient that is exact.

\* Significand bits of a binary64 float.
MantissaBits == 53
\* Widest span of bits of a sum computed exactly.
ExactBits == 28

RECURSIVE FNorm(_, _)
FNorm(m, e) ==
    IF m = 0 THEN [m |-> 0, e |-> 0]
    ELSE IF m % 2 = 0 THEN FNorm(m \div 2, e + 1)
    ELSE [m |-> m, e |-> e]

\* float(n) of an int n.
FOf(n) == FNorm(n, 0)
FNeg(a) == [m |-> -a.m, e |-> a.e]

\* Position of the leading bit of a non-zero float.
RECURSIVE BitLen(_)
BitLen(n) == IF n = 0 THEN 0 ELSE 1 + BitLen(n \div 2)
Msb(a) == a.e + BitLen(Abs(a.m)) - 1

FMul(a, b) == FNorm(a.m * b.m, a.e + b.e)

\* a / b, for a quotient that is itself a float.
FDiv(a, b) ==
    LET q == FNorm(a.m \div b.m, a.e - b.e)
    IN  CHOOSE r \in {q} : FMul(r, b) = a

\* a + b, rounded to nearest.
FAdd(a, b) ==
    IF a.m = 0 THEN b
    ELSE IF b.m = 0 THEN a
    ELSE LET big == IF Msb(a) >= Msb(b) THEN a ELSE b
             small == IF Msb(a) >= Msb(b) THEN b ELSE a
             lo == Min2(a.e, b.e)
         IN  IF Msb(big) - lo <= ExactBits
             THEN FNorm(a.m * 2^(a.e - lo) + b.m * 2^(b.e - lo), lo)
             ELSE CHOOSE r \in {big} : Msb(big) - Msb(small) >= MantissaBits + 2

FSub(a, b) == FAdd(a, FNeg(b))

FLess(a, b) == FSub(a, b).m < 0

\* Python's round(a): the nearest int, a tie going to the even one.
round(a) ==
    IF a.e >= 0 THEN a.m * 2^a.e
    ELSE IF Msb(a) < -1 THEN 0
    ELSE LET d == 2^(-a.e)
             q == a.m \div d
             r == a.m % d
         IN  IF 2 * r < d THEN q
             ELSE IF 2 * r > d THEN q + 1
             ELSE IF q % 2 = 0 THEN q ELSE q + 1

\* ------------------------------------------------------------ coordinates

\* IsoConfig(tile_width, tile_height, elevation_scale), of floats.
IsoConfig(tw, th, beta) == [tile_width |-> tw, tile_height |-> th, elevation_scale |-> beta]

\* __post_init__ refusing the elevation scale 0 as well.
IsoConfigRejected_zero_scale(cfg) ==
    \/ ~FLess(FOf(0), cfg.tile_width)
    \/ ~FLess(FOf(0), cfg.tile_height)
    \/ ~FLess(FOf(0), cfg.elevation_scale)

\* IsoConfig.__post_init__ raises for this configuration.
IsoConfigRejected(cfg) ==
    \/ ~FLess(FOf(0), cfg.tile_width)
    \/ ~FLess(FOf(0), cfg.tile_height)
    \/ FLess(cfg.elevation_scale, FOf(0))

GridCoord(x, y, h) == [x |-> x, y |-> y, h |-> h]
IsoCoord(x, y) == [x |-> x, y |-> y]

to_iso(grid, cfg) ==
    LET iso_x == FMul(FDiv(cfg.tile_width, FOf(2)), FOf(grid.x - grid.y))
        iso_y == FSub(FMul(FDiv(cfg.tile_height, FOf(2)), FOf(grid.x + grid.y)),
                      FMul(cfg.elevation_scale, FOf(grid.h)))
    IN  IsoCoord(iso_x, iso_y)

to_grid(iso, elevation, cfg) ==
    LET y_adjusted == FAdd(iso.y, FMul(cfg.elevation_scale, FOf(elevation)))
        half_tw == FDiv(cfg.tile_width, FOf(2))
        half_th == FDiv(cfg.tile_height, FOf(2))
        x_term == FDiv(iso.x, half_tw)
        y_term == FDiv(y_adjusted, half_th)
        grid_x == FDiv(FAdd(x_term, y_term), FOf(2))
        grid_y == FDiv(FSub(y_term, x_term), FOf(2))
    IN  GridCoord(round(grid_x), round(grid_y), elevation)

\* int(round(a)) as an int of any size, written as a float: a float with no
\* fractional bits is its own rounding.
int_round(a) == IF a.e >= 0 THEN a ELSE FOf(round(a))

\* int(floor(a + 0.5)): a tie goes up.
int_round_half_up(a) ==
    IF a.e >= 0 THEN a ELSE FOf((2 * a.m + 2^(-a.e)) \div 2^(1 - a.e))

\* IsoCoordInt(x, y), of ints.
IsoCoordInt(x, y) == [x |-> x, y |-> y]

\* to_iso_int rounding ties up.
to_iso_int_half_up(grid, cfg) ==
    LET iso == to_iso(grid, cfg)
    IN  IsoCoordInt(int_round_half_up(iso.x), int_round_half_up(iso.y))

to_iso_int(grid, cfg) ==
    LET iso == to_iso(grid, cfg)
    IN  IsoCoordInt(int_round(iso.x), int_round(iso.y))

\* grid_x and grid_y of to_grid before they are rounded.
to_grid_unrounded(iso, elevation, cfg) ==
    LET y_adjusted == FAdd(iso.y, FMul(cfg.elevation_scale, FOf(elevation)))
        half_tw == FDiv(cfg.tile_width, FOf(2))
        half_th == FDiv(cfg.tile_height, FOf(2))
        x_term == FDiv(iso.x, half_tw)
        y_term == FDiv(y_adjusted, half_th)
    IN  [x |-> FDiv(FAdd(x_term, y_term), FOf(2)),
         y |-> FDiv(FSub(y_term, x_term), FOf(2))]

\* validate_grid_bounds with the far edges let in.
validate_grid_bounds_inclusive(x, y, width, height) ==
    IF x < 0 \/ x > width \/ y < 0 \/ y > height THEN "OutOfBoundsError" ELSE "returned"

\* validate_grid_bounds(x, y, width, height): how the call ends.
validate_grid_bounds(x, y, width, height) ==
    IF x < 0 \/ x >= width \/ y < 0 \/ y >= height THEN "OutOfBoundsError" ELSE "returned"

\* is_in_diamond with the boundary left out.
is_in_diamond_strict(u, v) ==
    FLess(FAdd([m |-> Abs(u.m), e |-> u.e], [m |-> Abs(v.m), e |-> v.e]), FOf(1))

\* abs(u) + abs(v) <= 1.0
is_in_diamond(u, v) ==
    ~FLess(FOf(1), FAdd([m |-> Abs(u.m), e |-> u.e], [m |-> Abs(v.m), e |-> v.e]))

\* (u, v) of a click relative to a tile centre.
normalize_to_diamond(click_x, click_y, center_x, center_y, cfg) ==
    [u |-> FMul(FDiv(FOf(2), cfg.tile_width), FSub(click_x, center_x)),
     v |-> FMul(FDiv(FOf(2), cfg.tile_height), FSub(click_y, center_y))]

\* to_grid with its ints of any size, written as floats (see int_round).
to_grid_any(iso, elevation, cfg) ==
    LET unrounded == to_grid_unrounded(iso, elevation, cfg)
    IN  GridCoord(int_round(unrounded.x), int_round(unrounded.y), elevation)

\* to_iso of a tile whose x and y are ints of any size, written as floats.
to_iso_any(grid, cfg) ==
    LET iso_x == FMul(FDiv(cfg.tile_width, FOf(2)), FSub(grid.x, grid.y))
        iso_y == FSub(FMul(FDiv(cfg.tile_height, FOf(2)), FAdd(grid.x, grid.y)),
                      FMul(cfg.elevation_scale, FOf(grid.h)))
    IN  IsoCoord(iso_x, iso_y)

\* ------------------------------------------------------------ search state

\* FinderAlgorithm
DIJKSTRA == "dijkstra"
ASTAR == "astar"
FinderAlgorithm == {DIJKSTRA, ASTAR}

\* Python's None, as a predecessor.
None == << >>

VARIABLES
    interleaved,     \* the two find_path calls run interleaved, not one after the other
    game_map,        \* MultiLayerMap: terrain, elevation, priority, start, goal, width, height
    cost_config,     \* CostConfig
    allow_diagonal,  \* movement model of the searches
    pc,              \* per search: "idle", "loop", "exited", "returned", "raised", "hung"
    dist,            \* per search: dict cell -> best known cost
    came_from,       \* per search: dict cell -> predecessor or None
    pq,              \* per search: the heap, a set of <<f, cell>>
    nodes_expanded,  \* per search: counter
    push_log,        \* per search: the entries pushed so far, in the order pushed
    pop_log,         \* per search: the entries popped and expanded so far, in order
    result,          \* per search: the FinderResult returned (path, total_cost)
    iso_config,      \* IsoConfig of the coordinate transform
    grid_coord,      \* GridCoord given to to_iso
    iso_coord,       \* IsoCoord returned by to_iso
    grid_result,     \* GridCoord returned by to_grid
    iso_again,       \* IsoCoord returned by to_iso for grid_result
    iso_int,         \* IsoCoordInt returned by to_iso_int for grid_coord
    click,           \* IsoCoord of a screen point tested against the tile grid_coord
    normalized,      \* (u, v) returned by normalize_to_diamond
    in_diamond,      \* bool returned by is_in_diamond
    click_grid,      \* GridCoord returned by to_grid for the screen point
    bounds_check,    \* arguments of a validate_grid_bounds call and its outcome:
                     \* "call" before it, then "returned" or "OutOfBoundsError"
    iso_pc           \* "new", "grid" once the IsoConfig is constructed ("ValueError"
                     \* if it is refused), "projected" after to_iso, "recovered"
                     \* after to_grid, "reprojected" after the second to_iso;
                     \* for a screen point: "clicked", "normalized", "tested", "located";
                     \* "pixel" after to_iso_int

searchVars == <<interleaved, game_map, cost_config, allow_diagonal, pc, dist, came_from, pq,
                nodes_expanded, result, push_log, pop_log>>
logVars == <<push_log, pop_log>>
hitVars == <<click, normalized, in_diamond, click_grid>>
isoVars == <<iso_config, grid_coord, iso_coord, grid_result, iso_again, iso_int, hitVars,
             iso_pc>>
boundsVars == <<bounds_check>>
vars == <<searchVars, isoVars, boundsVars>>

Cells == CellsOf(game_map.width, game_map.height)
start == game_map.start
goal == game_map.goal
min_cost == get_minimum_base_cost(game_map)

heuristic_func(pos) ==
    IF allow_diagonal THEN octile_heuristic(pos, goal, min_cost)
    ELSE manhattan_heuristic(pos, goal, min_cost)

\* f-score pushed for a cell reached with cost g.
f_score(alg, g, pos) ==
    IF alg = ASTAR THEN NumAdd(NumOfCost(g), heuristic_func(pos)) ELSE NumOfCost(g)

\* Python's tuple order on heap entries (f, (x, y)).
EntryLess(e1, e2) ==
    \/ NumLess(e1[1], e2[1])
    \/ /\ e1[1] = e2[1]
       /\ \/ e1[2][1] < e2[2][1]
          \/ (e1[2][1] = e2[2][1] /\ e1[2][2] < e2[2][2])

\* heapq.heappop: the least entry of a non-empty heap.
heappop(h) == CHOOSE e \in h : \A o \in h : o = e \/ EntryLess(e, o)

\* The stale test of the loop, for a popped entry.
IsStale(alg, current_f, current) ==
    LET current_dist == dist[alg][current]
        bound == IF alg = ASTAR
                 THEN NumAdd(NumAdd(NumOfCost(current_dist), heuristic_func(current)),
                             Tolerance)
                 ELSE NumAdd(NumOfCost(current_dist), Tolerance)
    IN  NumLess(bound, current_f)

\* RelaxOne taking an equal new_dist for an improvement.
RelaxOne_on_equal(alg, current, current_dist, neighbor, st) ==
    LET edge_cost == calculate_edge_cost(current, neighbor, game_map, cost_config,
                                         allow_diagonal)
        new_dist == current_dist + edge_cost.val
    IN  IF edge_cost.inf THEN st
        ELSE IF neighbor \notin DOMAIN st.dist \/ new_dist <= st.dist[neighbor]
        THEN [dist |-> (neighbor :> new_dist) @@ st.dist,
              came_from |-> (neighbor :> current) @@ st.came_from,
              pq |-> st.pq \cup {<<f_score(alg, new_dist, neighbor), neighbor>>},
              pushed |-> Append(st.pushed, <<f_score(alg, new_dist, neighbor), neighbor>>)]
        ELSE st

\* One relaxation: the body of the neighbour loop on search state st; st.pushed
\* lists the entries the loop has pushed.
RelaxOne(alg, current, current_dist, neighbor, st) ==
    LET edge_cost == calculate_edge_cost(current, neighbor, game_map, cost_config,
                                         allow_diagonal)
        new_dist == current_dist + edge_cost.val
    IN  IF edge_cost.inf THEN st
        ELSE IF neighbor \notin DOMAIN st.dist \/ new_dist < st.dist[neighbor]
        THEN [dist |-> (neighbor :> new_dist) @@ st.dist,
              came_from |-> (neighbor :> current) @@ st.came_from,
              pq |-> st.pq \cup {<<f_score(alg, new_dist, neighbor), neighbor>>},
              pushed |-> Append(st.pushed, <<f_score(alg, new_dist, neighbor), neighbor>>)]
        ELSE st

\* The neighbour loop, in enumeration order.
RECURSIVE RelaxAll(_, _, _, _, _)
RelaxAll(alg, current, current_dist, nbrs, st) ==
    IF nbrs = << >> THEN st
    ELSE RelaxAll(alg, current, current_dist, Tail(nbrs),
                  RelaxOne(alg, current, current_dist, Head(nbrs), st))

\* The predecessor walk of _reconstruct_path ends within n further steps.
RECURSIVE WalkEnds(_, _, _)
WalkEnds(cf, current, n) ==
    IF current = None THEN TRUE
    ELSE IF n = 0 THEN FALSE
    ELSE WalkEnds(cf, IF current \in DOMAIN cf THEN cf[current] ELSE None, n - 1)

\* The cells appended by the walk, goal first.
RECURSIVE WalkFrom(_, _)
WalkFrom(cf, current) ==
    IF current = None THEN << >>
    ELSE <<current>> \o WalkFrom(cf, IF current \in DOMAIN cf THEN cf[current] ELSE None)

Reverse(s) == [i \in 1 .. Len(s) |-> s[Len(s) + 1 - i]]

\* _reconstruct_path without path.reverse().
_reconstruct_path_unreversed(cf, g) == WalkFrom(cf, g)

\* _reconstruct_path with the walk stopped one cell early: the start is left out.
_reconstruct_path_without_start(cf, g) ==
    LET walk == WalkFrom(cf, g)
    IN  Reverse(SubSeq(walk, 1, Len(walk) - 1))

\* The path from the start to g along the predecessors.
_reconstruct_path(cf, g) == Reverse(WalkFrom(cf, g))

NoResult == [path |-> << >>, total_cost |-> 0]

\* ----------------------------------------------------------------- inputs

\* Costs the maps use, in 10^-5: priorities 0.0001 and 5.0; caps 1.2 and 255.
PriorityValues == {10, 500000}
PriorityWeights == {-1, 0, 1}
MAX_COST_CAP == 255
CostCaps == {120000, MAX_COST_CAP * CostScale}

StartCells == {<<0, 0>>}

\* A map of w by h cells: plain ground with walls, forest on the cells of forest,
\* the cells of hills raised by one level, and the priority layer prio.
MakeMap(w, h, s, g, walls, forest, hills, prio) ==
    [terrain |-> [c \in CellsOf(w, h) |->
                    IF c \in walls THEN "#" ELSE IF c \in forest THEN "F" ELSE "."],
     elevation |-> [c \in CellsOf(w, h) |-> IF c \in hills THEN 1 ELSE 0],
     priority |-> [c \in CellsOf(w, h) |-> IF c \in DOMAIN prio THEN prio[c] ELSE 0],
     start |-> s, goal |-> g, width |-> w, height |-> h]

NoPriority == << >>

\* Maps of MaxWidth by MaxHeight cells with up to MaxWalls walls and one feature:
\* a forest cell, a raised cell, a raised forest cell, a cell with a tactical
\* priority, or forest everywhere.  Start and goal are passable cells.
FeatureMaps ==
    LET cells == CellsOf(MaxWidth, MaxHeight)
        base == {<<s, g, walls>> \in StartCells \X cells \X SUBSET cells :
                    /\ Cardinality(walls) <= MaxWalls
                    /\ s \notin walls /\ g \notin walls}
        M(b, forest, hills, prio) ==
            MakeMap(MaxWidth, MaxHeight, b[1], b[2], b[3], forest, hills, prio)
    IN  {M(b, forest, {}, NoPriority) : b \in base, forest \in {{}, cells}}
        \cup {M(b, {fc}, {}, NoPriority) : b \in base, fc \in cells}
        \cup {M(b, {}, {fc}, NoPriority) : b \in base, fc \in cells}
        \cup {M(b, {fc}, {fc}, NoPriority) : b \in base, fc \in cells}
        \cup {M(b, {}, {}, fc :> p) : b \in base, fc \in cells, p \in PriorityValues}

\* Open maps of MaxWidth by MaxWidth cells on which the goal carries the high
\* priority and one other cell the low one.
OpenMaps ==
    LET cells == CellsOf(MaxWidth, MaxWidth)
        lo == CHOOSE p \in PriorityValues : \A q \in PriorityValues : p <= q
        hi == CHOOSE p \in PriorityValues : \A q \in PriorityValues : p >= q
    IN  {MakeMap(MaxWidth, MaxWidth, s, g, {}, {}, {}, (g :> hi) @@ (c :> lo)) :
            s \in StartCells, g \in cells, c \in cells}

Maps == FeatureMaps \cup OpenMaps

HasPriority(m) == \E c \in DOMAIN m.priority : m.priority[c] # 0

EmptySearch == [a \in FinderAlgorithm |-> << >>]

\* No bounds validation is under way.
NoBoundsCheck ==
    bounds_check = [x |-> 0, y |-> 0, width |-> 1, height |-> 1, outcome |-> "returned"]

\* No screen point has been tested.
NoClick ==
    /\ click = IsoCoord(FOf(0), FOf(0))
    /\ normalized = [u |-> FOf(0), v |-> FOf(0)]
    /\ in_diamond = FALSE
    /\ click_grid = GridCoord(0, 0, 0)

\* IsoConfig() with its defaults and the origin: no transform is under way.
DefaultIsoConfig == IsoConfig(FOf(64), FOf(32), FOf(16))
NoTransform ==
    /\ iso_config = DefaultIsoConfig
    /\ grid_coord = GridCoord(0, 0, 0)
    /\ iso_coord = IsoCoord(FOf(0), FOf(0))
    /\ grid_result = GridCoord(0, 0, 0)
    /\ iso_again = IsoCoord(FOf(0), FOf(0))
    /\ iso_int = IsoCoordInt(FOf(0), FOf(0))
    /\ NoClick
    /\ iso_pc = "grid"

\* The arguments of the find_path calls, none of them made yet.
InitCalls(maps, weights, caps) ==
    /\ game_map \in maps
    /\ cost_config \in {CostConfig(w, cap) : w \in weights, cap \in caps}
    \* the priority weight is the default 0.0 exactly on the maps without priorities
    /\ (cost_config.priority_weight # 0 <=> HasPriority(game_map))
    /\ allow_diagonal \in BOOLEAN
    /\ pc = [a \in FinderAlgorithm |-> "idle"]
    /\ dist = EmptySearch
    /\ came_from = EmptySearch
    /\ pq = [a \in FinderAlgorithm |-> {}]
    /\ nodes_expanded = [a \in FinderAlgorithm |-> 0]
    /\ push_log = EmptySearch
    /\ pop_log = EmptySearch
    /\ result = [a \in FinderAlgorithm |-> NoResult]
    /\ NoTransform
    /\ NoBoundsCheck

\* The calls are made one after the other.
InitWith(maps, weights, caps) ==
    /\ InitCalls(maps, weights, caps)
    /\ interleaved = FALSE

Init == InitWith(Maps, PriorityWeights, CostCaps)

\* ---------------------------------------------------------------- find_path

\* What the next loop iteration of a search does with the entry it pops.
PopKind(alg) ==
    LET e == heappop(pq[alg])
    IN  IF e[2] = goal THEN "goal"
        ELSE IF IsStale(alg, e[1], e[2]) THEN "stale"
        ELSE "expand"

\* The search has ended, or has used up the expansions explored.
Stopped(alg) ==
    \/ pc[alg] \in {"returned", "raised", "hung"}
    \/ /\ pc[alg] = "loop"
       /\ pq[alg] # {}
       /\ PopKind(alg) = "expand"
       /\ nodes_expanded[alg] >= MaxExpanded

\* The searches of one map are made as the tests make them, DIJKSTRA, then
\* ASTAR, unless the two calls run interleaved.
Turn(alg) == interleaved \/ alg = DIJKSTRA \/ Stopped(DIJKSTRA)

\* find_path keeping its heap in one module-level list: a call that begins
\* resets the heap of the call under way.
Begin_shared_heap(alg) ==
    /\ Turn(alg)
    /\ pc[alg] = "idle"
    /\ pc' = [pc EXCEPT ![alg] = "loop"]
    /\ dist' = [dist EXCEPT ![alg] = (start :> 0)]
    /\ came_from' = [came_from EXCEPT ![alg] = (start :> None)]
    /\ pq' = [a \in FinderAlgorithm |->
                {<<IF alg = ASTAR THEN heuristic_func(start) ELSE NumOfCost(0), start>>}]
    /\ nodes_expanded' = [nodes_expanded EXCEPT ![alg] = 0]
    /\ push_log' = [push_log EXCEPT ![alg] =
                <<<<IF alg = ASTAR THEN heuristic_func(start) ELSE NumOfCost(0), start>>>>]
    /\ pop_log' = [pop_log EXCEPT ![alg] = << >>]
    /\ UNCHANGED <<isoVars, boundsVars, interleaved, game_map, cost_config,
                   allow_diagonal, result>>

\* find_path is called: dist, came_from and the heap are set up.
Begin(alg) ==
    /\ Turn(alg)
    /\ pc[alg] = "idle"
    /\ pc' = [pc EXCEPT ![alg] = "loop"]
    /\ dist' = [dist EXCEPT ![alg] = (start :> 0)]
    /\ came_from' = [came_from EXCEPT ![alg] = (start :> None)]
    /\ pq' = [pq EXCEPT ![alg] =
                {<<IF alg = ASTAR THEN heuristic_func(start) ELSE NumOfCost(0), start>>}]
    /\ nodes_expanded' = [nodes_expanded EXCEPT ![alg] = 0]
    /\ push_log' = [push_log EXCEPT ![alg] =
                <<<<IF alg = ASTAR THEN heuristic_func(start) ELSE NumOfCost(0), start>>>>]
    /\ pop_log' = [pop_log EXCEPT ![alg] = << >>]
    /\ UNCHANGED <<isoVars, boundsVars, interleaved, game_map, cost_config,
                   allow_diagonal, result>>

\* The popped cell is the goal: break.
PopGoal(alg) ==
    /\ Turn(alg)
    /\ pc[alg] = "loop"
    /\ pq[alg] # {}
    /\ LET e == heappop(pq[alg])
       IN  /\ e[2] = goal
           /\ pq' = [pq EXCEPT ![alg] = @ \ {e}]
    /\ pc' = [pc EXCEPT ![alg] = "exited"]
    /\ UNCHANGED <<isoVars, boundsVars, interleaved, game_map, cost_config,
                   allow_diagonal, dist, came_from,
                   nodes_expanded, result, logVars>>

\* PopStale counting the discarded entry as an expansion.
PopStale_counted(alg) ==
    /\ Turn(alg)
    /\ pc[alg] = "loop"
    /\ pq[alg] # {}
    /\ LET e == heappop(pq[alg])
       IN  /\ e[2] # goal
           /\ IsStale(alg, e[1], e[2])
           /\ pq' = [pq EXCEPT ![alg] = @ \ {e}]
    /\ nodes_expanded' = [nodes_expanded EXCEPT ![alg] = @ + 1]
    /\ UNCHANGED <<isoVars, boundsVars, interleaved, game_map, cost_config,
                   allow_diagonal, pc, dist, came_from, result, logVars>>

\* The popped entry is stale: continue.
PopStale(alg) ==
    /\ Turn(alg)
    /\ pc[alg] = "loop"
    /\ pq[alg] # {}
    /\ LET e == heappop(pq[alg])
       IN  /\ e[2] # goal
           /\ IsStale(alg, e[1], e[2])
           /\ pq' = [pq EXCEPT ![alg] = @ \ {e}]
    /\ UNCHANGED <<isoVars, boundsVars, interleaved, game_map, cost_config,
                   allow_diagonal, pc, dist, came_from,
                   nodes_expanded, result, logVars>>

\* The popped cell is expanded: every neighbour is relaxed.
Expand(alg) ==
    /\ Turn(alg)
    /\ pc[alg] = "loop"
    /\ pq[alg] # {}
    /\ nodes_expanded[alg] < MaxExpanded
    /\ LET e == heappop(pq[alg])
           current == e[2]
           st == RelaxAll(alg, current, dist[alg][current],
                          get_neighbors(current, game_map, allow_diagonal),
                          [dist |-> dist[alg], came_from |-> came_from[alg],
                           pq |-> pq[alg] \ {e}, pushed |-> << >>])
       IN  /\ current # goal
           /\ ~IsStale(alg, e[1], current)
           /\ dist' = [dist EXCEPT ![alg] = st.dist]
           /\ came_from' = [came_from EXCEPT ![alg] = st.came_from]
           /\ pq' = [pq EXCEPT ![alg] = st.pq]
           /\ push_log' = [push_log EXCEPT ![alg] = @ \o st.pushed]
           /\ pop_log' = [pop_log EXCEPT ![alg] = Append(@, e)]
    /\ nodes_expanded' = [nodes_expanded EXCEPT ![alg] = @ + 1]
    /\ UNCHANGED <<isoVars, boundsVars, interleaved, game_map, cost_config,
                   allow_diagonal, pc, result>>

\* The heap is empty: the loop ends.
Exhaust(alg) ==
    /\ Turn(alg)
    /\ pc[alg] = "loop"
    /\ pq[alg] = {}
    /\ pc' = [pc EXCEPT ![alg] = "exited"]
    /\ UNCHANGED <<isoVars, boundsVars, interleaved, game_map, cost_config,
                   allow_diagonal, dist, came_from, pq,
                   nodes_expanded, result, logVars>>

\* After the loop: raise NoPathFoundError.
Raise(alg) ==
    /\ Turn(alg)
    /\ pc[alg] = "exited"
    /\ goal \notin DOMAIN came_from[alg]
    /\ pc' = [pc EXCEPT ![alg] = "raised"]
    /\ UNCHANGED <<isoVars, boundsVars, interleaved, game_map, cost_config,
                   allow_diagonal, dist, came_from, pq,
                   nodes_expanded, result, logVars>>

\* After the loop: reconstruct the path and return the FinderResult.  When the
\* predecessors form a cycle the walk never ends and nothing is returned ("hung").
Return(alg) ==
    /\ Turn(alg)
    /\ pc[alg] = "exited"
    /\ goal \in DOMAIN came_from[alg]
    /\ IF WalkEnds(came_from[alg], goal, Cardinality(DOMAIN came_from[alg]))
       THEN /\ pc' = [pc EXCEPT ![alg] = "returned"]
            /\ result' = [result EXCEPT ![alg] =
                            [path |-> _reconstruct_path(came_from[alg], goal),
                             total_cost |-> dist[alg][goal]]]
       ELSE /\ pc' = [pc EXCEPT ![alg] = "hung"]
            /\ UNCHANGED result
    /\ UNCHANGED <<isoVars, boundsVars, interleaved, game_map, cost_config,
                   allow_diagonal, dist, came_from, pq,
                   nodes_expanded, logVars>>

Step(alg) ==
    \/ Begin(alg)
    \/ PopGoal(alg)
    \/ PopStale(alg)
    \/ Expand(alg)
    \/ Exhaust(alg)
    \/ Raise(alg)
    \/ Return(alg)

Next == \E alg \in FinderAlgorithm : Step(alg)

Spec == Init /\ [][Next]_vars

\* Init of the maps whose priority component is never negative.
InitNonNeg == InitWith(Maps, PriorityWeights \ {-1}, CostCaps)
SpecNonNeg == InitNonNeg /\ [][Next]_vars

\* Two calls on one map, table and CostConfig, their loop iterations interleaved
\* in every order.  The goal is the far corner.
InterleavedMaps == {m \in FeatureMaps : m.goal = <<MaxWidth - 1, MaxHeight - 1>>}
InitInterleaved ==
    /\ InitCalls(InterleavedMaps, PriorityWeights, CostCaps)
    /\ interleaved = TRUE
SpecInterleaved == InitInterleaved /\ [][Next]_vars

\* CostConfig has no __post_init__: it is constructed with any max_cost_cap,
\* here 0.0 and 1.2.
AnyCostCaps == {0, 120000}
InitAnyCap == InitWith(Maps, {0, 1}, AnyCostCaps)
SpecAnyCap == InitAnyCap /\ [][Next]_vars

\* ------------------------------------------------- coordinate transform

\* Values offered to IsoConfig: tile sizes 64, 32, 3, 0.5, 0 and -64; elevation
\* scales 0, 16, 0.5, 2^70 and -16.
TileWidths == {FOf(64), FOf(3), FOf(0), FOf(-64)}
TileHeights == {FOf(32), FNorm(1, -1), FOf(0)}
ElevationScales == {FOf(0), FOf(16), FNorm(1, -1), FNorm(1, 70), FOf(-16)}

\* The arguments IsoConfig is constructed with.
IsoConfigArgs ==
    {IsoConfig(tw, th, beta) :
        tw \in TileWidths, th \in TileHeights, beta \in ElevationScales}

\* The configurations IsoConfig accepts.
IsoConfigs == {c \in IsoConfigArgs : ~IsoConfigRejected(c)}

\* The search state of a 1x1 map on which no search is made.
NoSearch ==
    /\ interleaved = FALSE
    /\ game_map = MakeMap(1, 1, <<0, 0>>, <<0, 0>>, {}, {}, {}, NoPriority)
    /\ cost_config = CostConfig(0, MAX_COST_CAP * CostScale)
    /\ allow_diagonal = FALSE
    /\ pc = [a \in FinderAlgorithm |-> "idle"]
    /\ dist = EmptySearch
    /\ came_from = EmptySearch
    /\ pq = [a \in FinderAlgorithm |-> {}]
    /\ nodes_expanded = [a \in FinderAlgorithm |-> 0]
    /\ push_log = EmptySearch
    /\ pop_log = EmptySearch
    /\ result = [a \in FinderAlgorithm |-> NoResult]

\* One transform there and back, or one hit test: no search is made.
InitIso ==
    /\ NoSearch
    /\ NoBoundsCheck
    /\ iso_config \in IsoConfigArgs
    /\ grid_coord \in {GridCoord(x, y, h) :
                            x \in 0 .. MaxCoord, y \in 0 .. MaxCoord, h \in 0 .. MaxElevation}
    /\ iso_coord = IsoCoord(FOf(0), FOf(0))
    /\ grid_result = GridCoord(0, 0, 0)
    /\ iso_again = IsoCoord(FOf(0), FOf(0))
    /\ iso_int = IsoCoordInt(FOf(0), FOf(0))
    /\ NoClick
    /\ iso_pc = "new"

\* IsoConfig(...): __post_init__ accepts the arguments or raises ValueError.
Construct ==
    /\ iso_pc = "new"
    /\ iso_pc' = IF IsoConfigRejected(iso_config) THEN "ValueError" ELSE "grid"
    /\ UNCHANGED <<searchVars, boundsVars, iso_int,
                   iso_config, grid_coord, iso_coord, grid_result, iso_again, hitVars>>

\* to_iso(grid_coord, iso_config)
ToIso ==
    /\ iso_pc = "grid"
    /\ iso_coord' = to_iso(grid_coord, iso_config)
    /\ iso_pc' = "projected"
    /\ UNCHANGED <<searchVars, boundsVars, iso_int,
                   iso_config, grid_coord, grid_result, iso_again, hitVars>>

\* to_grid(iso_coord, grid_coord.h, iso_config)
ToGrid ==
    /\ iso_pc = "projected"
    /\ grid_result' = to_grid(iso_coord, grid_coord.h, iso_config)
    /\ iso_pc' = "recovered"
    /\ UNCHANGED <<searchVars, boundsVars, iso_int,
                   iso_config, grid_coord, iso_coord, iso_again, hitVars>>

\* to_iso(grid_result, iso_config)
ToIsoAgain ==
    /\ iso_pc = "recovered"
    /\ iso_again' = to_iso(grid_result, iso_config)
    /\ iso_pc' = "reprojected"
    /\ UNCHANGED <<searchVars, boundsVars, iso_int,
                   iso_config, grid_coord, iso_coord, grid_result, hitVars>>

\* Offsets of the screen points from the tile centre, in half tiles: the
\* centre, halfway, near a corner, on a corner, and 2^-70 of a half tile.
ClickOffsets == {FOf(0), FNorm(1, -1), FNorm(-1, -1), FNorm(7, -3), FNorm(-7, -3),
                 FOf(1), FOf(-1)}
TinyOffset == FNorm(1, -70)

\* The quotient 2.0 / t is a float exactly (t is a power of two).
ExactReciprocal(t) == Abs(t.m) = 1

\* to_iso_int(grid_coord, iso_config)
ToIsoInt ==
    /\ iso_pc = "grid"
    /\ iso_int' = to_iso_int(grid_coord, iso_config)
    /\ iso_pc' = "pixel"
    /\ UNCHANGED <<searchVars, boundsVars, iso_config, grid_coord, iso_coord, grid_result,
                   iso_again, hitVars>>

\* A screen point is picked around the centre to_iso gave for the tile.
Click ==
    /\ iso_pc = "projected"
    /\ ExactReciprocal(iso_config.tile_width)
    /\ ExactReciprocal(iso_config.tile_height)
    /\ \E a \in ClickOffsets, b \in ClickOffsets \cup {TinyOffset} :
            click' = IsoCoord(
                FAdd(iso_coord.x, FMul(a, FDiv(iso_config.tile_width, FOf(2)))),
                FAdd(iso_coord.y, FMul(b, FDiv(iso_config.tile_height, FOf(2)))))
    /\ iso_pc' = "clicked"
    /\ UNCHANGED <<searchVars, boundsVars, iso_int,
                   iso_config, grid_coord, iso_coord, grid_result, iso_again,
                   normalized, in_diamond, click_grid>>

\* normalize_to_diamond(click, centre, iso_config)
Normalize ==
    /\ iso_pc = "clicked"
    /\ normalized' = normalize_to_diamond(click.x, click.y, iso_coord.x, iso_coord.y,
                                          iso_config)
    /\ iso_pc' = "normalized"
    /\ UNCHANGED <<searchVars, boundsVars, iso_int,
                   iso_config, grid_coord, iso_coord, grid_result, iso_again,
                   click, in_diamond, click_grid>>

\* is_in_diamond(u, v)
HitTest ==
    /\ iso_pc = "normalized"
    /\ in_diamond' = is_in_diamond(normalized.u, normalized.v)
    /\ iso_pc' = "tested"
    /\ UNCHANGED <<searchVars, boundsVars, iso_int,
                   iso_config, grid_coord, iso_coord, grid_result, iso_again,
                   click, normalized, click_grid>>

\* to_grid(click, grid_coord.h, iso_config)
ClickToGrid ==
    /\ iso_pc = "tested"
    /\ click_grid' = to_grid(click, grid_coord.h, iso_config)
    /\ iso_pc' = "located"
    /\ UNCHANGED <<searchVars, boundsVars, iso_int,
                   iso_config, grid_coord, iso_coord, grid_result, iso_again,
                   click, normalized, in_diamond>>

NextIso ==
    \/ Construct
    \/ ToIso
    \/ ToGrid
    \/ ToIsoAgain
    \/ ToIsoInt
    \/ Click
    \/ Normalize
    \/ HitTest
    \/ ClickToGrid

SpecIso == InitIso /\ [][NextIso]_vars

\* ------------------------------------------------------- tile of a point

\* Screen points, in pixels.
ScreenXs == {FOf(0), FOf(16), FOf(-16), FOf(24), FOf(32)}
ScreenYs == {FOf(0), FOf(8), FOf(-8), FOf(12), FOf(16), FOf(20)}

\* The configurations whose half tiles divide the screen points exactly.
ExactIsoConfigs ==
    {c \in IsoConfigs : ExactReciprocal(c.tile_width) /\ ExactReciprocal(c.tile_height)}

\* A screen point and the elevation known at it; click_grid holds the tile of
\* the point with x and y as ints of any size, written as floats.
InitLocate ==
    /\ NoSearch
    /\ NoBoundsCheck
    /\ iso_config \in ExactIsoConfigs
    /\ grid_coord \in {GridCoord(0, 0, h) : h \in 0 .. MaxElevation}
    /\ click \in {IsoCoord(x, y) : x \in ScreenXs, y \in ScreenYs}
    /\ iso_coord = IsoCoord(FOf(0), FOf(0))
    /\ grid_result = GridCoord(0, 0, 0)
    /\ iso_again = IsoCoord(FOf(0), FOf(0))
    /\ iso_int = IsoCoordInt(FOf(0), FOf(0))
    /\ normalized = [u |-> FOf(0), v |-> FOf(0)]
    /\ in_diamond = FALSE
    /\ click_grid = GridCoord(FOf(0), FOf(0), 0)
    /\ iso_pc = "point"

\* to_grid(click, h, iso_config)
LocateTile ==
    /\ iso_pc = "point"
    /\ click_grid' = to_grid_any(click, grid_coord.h, iso_config)
    /\ iso_pc' = "tile"
    /\ UNCHANGED <<searchVars, boundsVars, iso_int,
                   iso_config, grid_coord, iso_coord, grid_result, iso_again,
                   click, normalized, in_diamond>>

\* to_iso(click_grid, iso_config): the centre of the tile
TileCentre ==
    /\ iso_pc = "tile"
    /\ iso_again' = to_iso_any(click_grid, iso_config)
    /\ iso_pc' = "centre"
    /\ UNCHANGED <<searchVars, boundsVars, iso_int,
                   iso_config, grid_coord, iso_coord, grid_result, hitVars>>

\* normalize_to_diamond(click, centre of the tile, iso_config)
NormalizeToTile ==
    /\ iso_pc = "centre"
    /\ normalized' = normalize_to_diamond(click.x, click.y, iso_again.x, iso_again.y,
                                          iso_config)
    /\ iso_pc' = "scaled"
    /\ UNCHANGED <<searchVars, boundsVars, iso_int,
                   iso_config, grid_coord, iso_coord, grid_result, iso_again,
                   click, in_diamond, click_grid>>

\* is_in_diamond(u, v)
TileHitTest ==
    /\ iso_pc = "scaled"
    /\ in_diamond' = is_in_diamond(normalized.u, normalized.v)
    /\ iso_pc' = "judged"
    /\ UNCHANGED <<searchVars, boundsVars, iso_int,
                   iso_config, grid_coord, iso_coord, grid_result, iso_again,
                   click, normalized, click_grid>>

NextLocate ==
    \/ LocateTile
    \/ TileCentre
    \/ NormalizeToTile
    \/ TileHitTest

SpecLocate == InitLocate /\ [][NextLocate]_vars

\* ------------------------------------------------------ bounds validation

\* One validate_grid_bounds call, on coordinates in and around a grid.
InitBounds ==
    /\ NoSearch
    /\ NoTransform
    /\ bounds_check \in [x : -1 .. MaxCoord + 1, y : -1 .. MaxCoord + 1,
                          width : 0 .. MaxCoord + 1, height : 0 .. MaxCoord + 1,
                          outcome : {"call"}]

ValidateBounds ==
    /\ bounds_check.outcome = "call"
    /\ bounds_check' = [bounds_check EXCEPT !.outcome =
            validate_grid_bounds(bounds_check.x, bounds_check.y,
                                 bounds_check.width, bounds_check.height)]
    /\ UNCHANGED <<searchVars, isoVars>>

NextBounds == ValidateBounds
SpecBounds == InitBounds /\ [][NextBounds]_vars

\* ------------------------------------------------------- reference values

\* The moves the movement model allows from u: one step along an axis, or along
\* both when diagonal movement is on, to a cell of the map.
AllowedMoves(u) ==
    {v \in Cells :
        /\ Max2(Abs(v[1] - u[1]), Abs(v[2] - u[2])) = 1
        /\ (Abs(v[1] - u[1]) + Abs(v[2] - u[2]) = 1 \/ allow_diagonal)}

Passable(c) == get_terrain_cost(game_map.terrain[c]).passable

EdgeCost(u, v) == calculate_edge_cost(u, v, game_map, cost_config, allow_diagonal)

\* Total costs of the simple paths from cur to the goal that avoid visited.
RECURSIVE PathCosts(_, _)
PathCosts(cur, visited) ==
    IF cur = goal THEN {0}
    ELSE UNION {{EdgeCost(cur, n).val + c : c \in PathCosts(n, visited \cup {n})} :
                    n \in {m \in AllowedMoves(cur) \ visited : Passable(m)}}

SetMin(S) == CHOOSE m \in S : \A k \in S : m <= k

\* Cells reachable from the start through passable cells by allowed moves.
RECURSIVE ReachFrom(_)
ReachFrom(seen) ==
    LET more == {v \in Cells \ seen : Passable(v) /\ \E u \in seen : v \in AllowedMoves(u)}
    IN  IF more = {} THEN seen ELSE ReachFrom(seen \cup more)

GoalReachable == goal \in ReachFrom({start})

\* ----------------------------------------------------------------- claims

\* C1: whenever the goal is reachable, find_path with DIJKSTRA returns a
\* total_cost equal to the least sum of edge costs over the start-to-goal
\* paths made of allowed moves, for every CostConfig (priority_weight of any sign).
C1_DijkstraOptimal ==
    pc[DIJKSTRA] = "returned" =>
        result[DIJKSTRA].total_cost = SetMin(PathCosts(start, {start}))

\* C2: on every map with a path, ASTAR and DIJKSTRA return the same total_cost.
C2_SameCost ==
    (pc[DIJKSTRA] = "returned" /\ pc[ASTAR] = "returned") =>
        result[ASTAR].total_cost = result[DIJKSTRA].total_cost

\* A path as the contract wants it: from start to goal, by allowed unit moves,
\* inside the map, passable after its first cell, a single cell only when
\* start is the goal.
ValidPath(path) ==
    /\ Len(path) >= 1
    /\ path[1] = start
    /\ path[Len(path)] = goal
    /\ \A i \in 1 .. Len(path) :
            /\ path[i][1] \in 0 .. game_map.width - 1
            /\ path[i][2] \in 0 .. game_map.height - 1
    /\ \A i \in 1 .. Len(path) - 1 :
            LET dx == Abs(path[i + 1][1] - path[i][1])
                dy == Abs(path[i + 1][2] - path[i][2])
            IN  \/ dx + dy = 1
                \/ (dx = 1 /\ dy = 1 /\ allow_diagonal)
    /\ \A i \in 2 .. Len(path) : game_map.terrain[path[i]] # "#"
    /\ (Len(path) = 1 <=> start = goal)

\* C3: every FinderResult returned by find_path carries a valid path: first
\* cell start, last cell goal, consecutive cells one allowed move apart, all
\* cells in the map, all but the first passable, length 1 exactly when start
\* is the goal.
C3_ReturnedPathValid ==
    \A alg \in FinderAlgorithm :
        pc[alg] = "returned" => ValidPath(result[alg].path)

\* A search returned a path of at least three cells with a diagonal step.
C3_Witness ==
    \E alg \in FinderAlgorithm :
        /\ pc[alg] = "returned"
        /\ Len(result[alg].path) >= 3
        /\ \E i \in 1 .. Len(result[alg].path) - 1 :
                is_diagonal_move(result[alg].path[i], result[alg].path[i + 1])

\* C4: a search that has ended has raised NoPathFoundError exactly when the
\* goal is not reachable from the start through passable cells, it raises only
\* with an empty frontier and a goal never reached, and a search that raised
\* produced no FinderResult.  A search with the goal unreachable that is still
\* expanding after MaxExpanded expansions has not raised.
C4_RaisesIffUnreachable ==
    \A alg \in FinderAlgorithm :
        /\ Stopped(alg) => (pc[alg] = "raised" <=> ~GoalReachable)
        /\ pc[alg] = "raised" =>
                /\ pq[alg] = {}
                /\ goal \notin DOMAIN dist[alg]
                /\ result[alg] = NoResult

\* The contract's edge cost before saturation, in 10^-5:
\* base_cost(v)*k + ascent_cost(v)*max(0, dh) + descent_cost(v)*max(0, -dh)
\* + priority_weight*priority(v).
FormulaCost(u, v) ==
    LET t == get_terrain_cost(game_map.terrain[v])
        dh == game_map.elevation[v] - game_map.elevation[u]
        up == IF dh > 0 THEN dh ELSE 0
        down == IF dh < 0 THEN -dh ELSE 0
        k == IF v[1] # u[1] /\ v[2] # u[2] THEN t.diagonal_factor ELSE 1000
    IN  t.base_cost * k * 10 + t.ascent_cost * up * 10000
        + t.descent_cost * down * 10000
        + cost_config.priority_weight * game_map.priority[v]

\* The predecessor edge into v that a search recorded.
Recorded(alg, u, v) ==
    /\ v \in DOMAIN came_from[alg]
    /\ came_from[alg][v] = u
    /\ u \in DOMAIN dist[alg]

\* C5: for adjacent cells u, v with v passable and the move allowed, whenever
\* the formula value does not exceed max_cost_cap, calculate_edge_cost(u, v)
\* is that value.
C5_EdgeCostFormula ==
    \A u \in Cells : \A v \in AllowedMoves(u) :
        (Passable(v) /\ FormulaCost(u, v) <= cost_config.max_cost_cap) =>
            EdgeCost(u, v) = Finite(FormulaCost(u, v))

\* DIJKSTRA returned after recording a diagonal climb into a forest cell at
\* its formula cost.
C5_Witness ==
    /\ pc[DIJKSTRA] = "returned"
    /\ \E v \in Cells : \E u \in AllowedMoves(v) :
            /\ Recorded(DIJKSTRA, u, v)
            /\ is_diagonal_move(u, v)
            /\ game_map.terrain[v] = "F"
            /\ game_map.elevation[v] > game_map.elevation[u]
            /\ FormulaCost(u, v) <= cost_config.max_cost_cap
            /\ dist[DIJKSTRA][v] = dist[DIJKSTRA][u] + FormulaCost(u, v)

\* C6: for a passable destination and an allowed move, calculate_edge_cost is
\* exactly max_cost_cap when the formula value, priority component included,
\* exceeds max_cost_cap, and the formula value otherwise; no finite edge cost
\* exceeds max_cost_cap.
C6_Saturation ==
    \A u \in Cells : \A v \in AllowedMoves(u) :
        Passable(v) =>
            /\ ~EdgeCost(u, v).inf
            /\ EdgeCost(u, v).val <= cost_config.max_cost_cap
            /\ EdgeCost(u, v).val =
                    IF FormulaCost(u, v) > cost_config.max_cost_cap
                    THEN cost_config.max_cost_cap
                    ELSE FormulaCost(u, v)

\* DIJKSTRA returned after recording an edge that only the priority component
\* lifts above the cap, at exactly the cap.
C6_Witness ==
    /\ pc[DIJKSTRA] = "returned"
    /\ \E v \in Cells : \E u \in AllowedMoves(v) :
            /\ Recorded(DIJKSTRA, u, v)
            /\ game_map.priority[v] > 0
            /\ FormulaCost(u, v) > cost_config.max_cost_cap
            /\ FormulaCost(u, v) - cost_config.priority_weight * game_map.priority[v]
                    <= cost_config.max_cost_cap
            /\ dist[DIJKSTRA][v] = dist[DIJKSTRA][u] + cost_config.max_cost_cap

\* C7: calculate_edge_cost is the Unreachable sentinel exactly when the terrain
\* at v is impassable or the move changes both axes by one while allow_diagonal
\* is false, for every max_cost_cap.
C7_SentinelExactly ==
    \A u \in Cells : \A v \in Cells : \A cap \in CostCaps : \A diag \in BOOLEAN :
        calculate_edge_cost(u, v, game_map,
                            CostConfig(cost_config.priority_weight, cap), diag).inf
        <=> \/ game_map.terrain[v] = "#"
            \/ (Abs(v[1] - u[1]) = 1 /\ Abs(v[2] - u[2]) = 1 /\ ~diag)

\* DIJKSTRA returned on a map where a cell it reached has a wall diagonally
\* next to it whose formula cost exceeds the cap: the edge is still the sentinel.
C7_Witness ==
    /\ pc[DIJKSTRA] = "returned"
    /\ \E u \in DOMAIN dist[DIJKSTRA] : \E v \in Cells :
            /\ game_map.terrain[v] = "#"
            /\ is_diagonal_move(u, v)
            /\ FormulaCost(u, v) > cost_config.max_cost_cap
            /\ EdgeCost(u, v) = Infinity

\* C8: the heuristic A* uses is admissible: for every cell A* has reached from
\* which the goal is reachable, the heuristic (manhattan with 4 directions,
\* octile with 8) does not exceed the least total edge cost of a path to the goal.
C8_HeuristicAdmissible ==
    \A n \in DOMAIN dist[ASTAR] :
        LET costs == PathCosts(n, {n})
        IN  costs # {} => ~NumLess(NumOfCost(SetMin(costs)), heuristic_func(n))

\* C9: on every map with a path, the nodes_expanded of ASTAR is at most the
\* nodes_expanded of DIJKSTRA.
C9_AstarExpandsNoMore ==
    (pc[DIJKSTRA] = "returned" /\ pc[ASTAR] = "returned") =>
        nodes_expanded[ASTAR] <= nodes_expanded[DIJKSTRA]

\* C10: for every integer cell (x, y), every elevation h and every valid
\* IsoConfig, to_grid(to_iso(x, y, h), h) is (x, y) with h unchanged.
C10_RoundTrip ==
    iso_pc = "recovered" => grid_result = grid_coord

\* |a| and a <= b on floats.
FAbs(a) == [m |-> Abs(a.m), e |-> a.e]
FLessEq(a, b) == ~FLess(b, a)

\* C11: for every grid cell and valid IsoConfig, to_iso(to_grid(to_iso(x, y, h), h))
\* is within 0.5 of to_iso(x, y, h) on the X axis and on the Y axis.
C11_RoundTripError ==
    iso_pc = "reprojected" =>
        /\ FLessEq(FAbs(FSub(iso_again.x, iso_coord.x)), FNorm(1, -1))
        /\ FLessEq(FAbs(FSub(iso_again.y, iso_coord.y)), FNorm(1, -1))

\* |a| < 2^-53: half the gap between 1.0 and the next float.
Tiny(a) == a.m # 0 /\ Msb(a) < -MantissaBits

\* |a| as an integer count of 2^-k.
Scaled(a, k) == Abs(a.m) * 2^(a.e + k)

\* |u| + |v| <= 1 over the reals. A tiny component next to one that is a
\* multiple of 2^-ExactBits keeps the sum within 1 only if the other is below 1.
SumAtMostOne(u, v) ==
    IF Tiny(u) /\ Tiny(v) THEN TRUE
    ELSE IF Tiny(v) THEN FLess(FAbs(u), FOf(1))
    ELSE IF Tiny(u) THEN FLess(FAbs(v), FOf(1))
    ELSE LET k == Max2(0, Max2(-u.e, -v.e))
         IN  Scaled(u, k) + Scaled(v, k) <= 2^k

\* |u| + |v| < 1 over the reals.
SumBelowOne(u, v) ==
    IF Tiny(u) /\ Tiny(v) THEN TRUE
    ELSE IF Tiny(v) THEN FLess(FAbs(u), FOf(1))
    ELSE IF Tiny(u) THEN FLess(FAbs(v), FOf(1))
    ELSE LET k == Max2(0, Max2(-u.e, -v.e))
         IN  Scaled(u, k) + Scaled(v, k) < 2^k

\* |u| + |v| <= 1 + 2^-53 over the reals: the sums that round to at most 1.0.
SumRoundsWithinOne(u, v) ==
    IF Tiny(u) /\ Tiny(v) THEN TRUE
    ELSE IF Tiny(v) THEN FLessEq(FAbs(u), FOf(1))
    ELSE IF Tiny(u) THEN FLessEq(FAbs(v), FOf(1))
    ELSE LET k == Max2(0, Max2(-u.e, -v.e))
         IN  Scaled(u, k) + Scaled(v, k) <= 2^k

\* u * tile_width = 2 * (X - Xc) and v * tile_height = 2 * (Y - Yc)
NormalizedByFormula ==
    /\ FMul(normalized.u, iso_config.tile_width)
           = FMul(FOf(2), FSub(click.x, iso_coord.x))
    /\ FMul(normalized.v, iso_config.tile_height)
           = FMul(FOf(2), FSub(click.y, iso_coord.y))

\* is_in_diamond gives one answer for (u, v), (-u, v), (u, -v) and (-u, -v).
SameInFourQuadrants ==
    \A su \in {1, -1}, sv \in {1, -1} :
        is_in_diamond([m |-> su * normalized.u.m, e |-> normalized.u.e],
                      [m |-> sv * normalized.v.m, e |-> normalized.v.e]) = in_diamond

C13_InsideMapsToTile ==
    (iso_pc = "located" /\ SumBelowOne(normalized.u, normalized.v)) =>
        click_grid = grid_coord

\* C14: validate_grid_bounds raises OutOfBoundsError exactly when x < 0,
\* x >= width, y < 0 or y >= height, and otherwise returns, the coordinates
\* being neither clamped nor wrapped.
C14_BoundsCheck ==
    [][/\ bounds_check'.outcome = "OutOfBoundsError" <=>
              ~(/\ bounds_check.x \in 0 .. bounds_check.width - 1
                /\ bounds_check.y \in 0 .. bounds_check.height - 1)
       /\ bounds_check'.outcome \in {"OutOfBoundsError", "returned"}
       /\ bounds_check'.x = bounds_check.x
       /\ bounds_check'.y = bounds_check.y]_vars

\* A call on the far corner of a grid has returned.
C14_Witness ==
    /\ bounds_check.outcome = "returned"
    /\ bounds_check.x = bounds_check.width - 1
    /\ bounds_check.y = bounds_check.height - 1
    /\ bounds_check.width = MaxCoord

\* C15: constructing an IsoConfig raises exactly when tile_width <= 0,
\* tile_height <= 0 or elevation_scale < 0, the elevation scale 0 being accepted,
\* so that no transform or hit test runs on a zero or negative tile dimension.
C15_ConstructionRejects ==
    LET valid == /\ iso_config.tile_width.m > 0
                 /\ iso_config.tile_height.m > 0
                 /\ iso_config.elevation_scale.m >= 0
    IN  /\ iso_pc = "ValueError" => ~valid
        /\ iso_pc \notin {"new", "ValueError"} => valid

\* A configuration with the elevation scale 0 was accepted and used by to_iso.
C15_Witness ==
    /\ iso_pc = "projected"
    /\ iso_config.elevation_scale = FOf(0)

\* C16: constructing a CostConfig with max_cost_cap <= 0 fails, so that no
\* search and no edge-cost computation runs with max_cost_cap <= 0.
C16_CapPositive ==
    \A alg \in FinderAlgorithm :
        pc[alg] # "idle" => cost_config.max_cost_cap > 0

\* n is the integer nearest to the float a, the even one of two equally near.
NearestEven(n, a) ==
    IF a.e >= 0 THEN n = a.m * 2^a.e
    ELSE IF Msb(a) < -1 THEN n = 0
    ELSE LET d == 2^(-a.e)
             gap == Abs(n * d - a.m)
         IN  /\ 2 * gap <= d
             /\ 2 * gap = d => n % 2 = 0

\* The int n, written as a float, is NearestEven to the float a.
IntNearestEven(n, a) ==
    IF a.e >= 0 THEN n = a ELSE n.e >= 0 /\ NearestEven(n.m * 2^n.e, a)

\* C17: to_iso_int returns each axis of to_iso rounded to the nearest integer,
\* a tie going to the even integer, and to_grid rounds its two grid axes by the
\* same rule.
C17_RoundHalfEven ==
    /\ iso_pc = "pixel" =>
            LET iso == to_iso(grid_coord, iso_config)
            IN  /\ IntNearestEven(iso_int.x, iso.x)
                /\ IntNearestEven(iso_int.y, iso.y)
    /\ iso_pc = "located" =>
            LET g == to_grid_unrounded(click, grid_coord.h, iso_config)
            IN  /\ NearestEven(click_grid.x, g.x)
                /\ NearestEven(click_grid.y, g.y)

\* to_iso_int has rounded the tie 4.5 to 4.
C17_Witness ==
    /\ iso_pc = "pixel"
    /\ to_iso(grid_coord, iso_config).x = FNorm(9, -1)
    /\ iso_int.x = FOf(4)

\* The (total cost, number of turns) of the simple paths from cur to the goal
\* that avoid visited, cur having been entered by the step dir.
RECURSIVE CostsAndTurns(_, _, _)
CostsAndTurns(cur, visited, dir) ==
    IF cur = goal THEN {<<0, 0>>}
    ELSE UNION {LET step == <<n[1] - cur[1], n[2] - cur[2]>>
                    turn == IF dir \in {<<0, 0>>, step} THEN 0 ELSE 1
                IN  {<<EdgeCost(cur, n).val + ct[1], turn + ct[2]>> :
                        ct \in CostsAndTurns(n, visited \cup {n}, step)} :
                    n \in {m \in AllowedMoves(cur) \ visited : Passable(m)}}

\* The number of cells of the path where the direction of travel changes.
Turns(path) ==
    Cardinality({i \in 2 .. Len(path) - 1 :
        <<path[i][1] - path[i - 1][1], path[i][2] - path[i - 1][2]>>
            # <<path[i + 1][1] - path[i][1], path[i + 1][2] - path[i][2]>>})

\* C18: among the paths of equal least total cost, find_path returns one with
\* the fewest turns.
C18_FewestTurns ==
    \A alg \in FinderAlgorithm :
        pc[alg] = "returned" =>
            LET all == CostsAndTurns(start, {start}, <<0, 0>>)
                least == SetMin({ct[1] : ct \in all})
            IN  result[alg].total_cost = least =>
                    Turns(result[alg].path) = SetMin({ct[2] : ct \in {c \in all : c[1] = least}})

\* C19: every find_path call terminates, by returning or by raising, for every
\* CostConfig admitted (priority_weight of any sign), the reconstruction of
\* the path included: no call is left walking the predecessors for ever.
C19_Terminates ==
    \A alg \in FinderAlgorithm : pc[alg] # "hung"

\* What a find_path call made alone leaves when it ends: lines 202-214 on the
\* search state st after n expansions.
AloneOutcome(st, n) ==
    IF goal \notin DOMAIN st.came_from
    THEN [pc |-> "raised", result |-> NoResult, nodes_expanded |-> n]
    ELSE IF WalkEnds(st.came_from, goal, Cardinality(DOMAIN st.came_from))
    THEN [pc |-> "returned",
          result |-> [path |-> _reconstruct_path(st.came_from, goal),
                      total_cost |-> st.dist[goal]],
          nodes_expanded |-> n]
    ELSE [pc |-> "hung", result |-> NoResult, nodes_expanded |-> n]

\* The loop of a find_path call made alone, from the search state st after n
\* expansions, up to MaxExpanded expansions.
RECURSIVE AloneLoop(_, _, _)
AloneLoop(alg, st, n) ==
    IF st.pq = {} THEN AloneOutcome(st, n)
    ELSE LET e == heappop(st.pq)
             current == e[2]
             rest == [st EXCEPT !.pq = @ \ {e}]
             g == NumOfCost(st.dist[current])
             bound == IF alg = ASTAR
                      THEN NumAdd(NumAdd(g, heuristic_func(current)), Tolerance)
                      ELSE NumAdd(g, Tolerance)
         IN  IF current = goal THEN AloneOutcome(rest, n)
             ELSE IF NumLess(bound, e[1]) THEN AloneLoop(alg, rest, n)
             ELSE IF n >= MaxExpanded
             THEN [pc |-> "loop", result |-> NoResult, nodes_expanded |-> n]
             ELSE AloneLoop(alg,
                            RelaxAll(alg, current, st.dist[current],
                                     get_neighbors(current, game_map, allow_diagonal),
                                     rest),
                            n + 1)

\* find_path(game_map, alg, allow_diagonal, cost_config) called alone.
FindPathAlone(alg) ==
    AloneLoop(alg,
              [dist |-> (start :> 0), came_from |-> (start :> None),
               pq |-> {<<IF alg = ASTAR THEN heuristic_func(start) ELSE NumOfCost(0),
                         start>>},
               pushed |-> << >>],
              0)

\* C20: two find_path calls interleaved over one map, terrain table and
\* CostConfig each end with the path, total_cost and nodes_expanded of the same
\* call made alone, and leave the map and the CostConfig as they were.
C20_InterleavedAsAlone ==
    [][/\ \A alg \in FinderAlgorithm :
              pc'[alg] \in {"returned", "raised", "hung"} =>
                  [pc |-> pc'[alg], result |-> result'[alg],
                   nodes_expanded |-> nodes_expanded'[alg]] = FindPathAlone(alg)
       /\ game_map' = game_map
       /\ cost_config' = cost_config
       /\ allow_diagonal' = allow_diagonal]_vars

\* Both calls have returned, ASTAR having begun and ended while DIJKSTRA was in
\* its loop with expansions made and more to make.
C20_Witness ==
    /\ interleaved
    /\ pc[ASTAR] = "returned"
    /\ pc[DIJKSTRA] = "loop"
    /\ nodes_expanded[DIJKSTRA] \in 1 .. nodes_expanded[ASTAR]
    /\ pq[DIJKSTRA] # {}

\* C21: on every map and for every CostConfig admitted, every finite edge cost
\* calculate_edge_cost returns is at least min_cost, the least base_cost over
\* the passable terrain codes of the map.
C21_EdgeCostAtLeastMin ==
    (\E alg \in FinderAlgorithm : pc[alg] # "idle") =>
        \A u \in Cells : \A v \in AllowedMoves(u) :
            LET c == calculate_edge_cost(u, v, game_map, cost_config, allow_diagonal)
            IN  ~c.inf => c.val >= min_cost * (CostScale \div 10)

\* The step expands a cell in the search alg.
Expands(alg) == nodes_expanded'[alg] = nodes_expanded[alg] + 1

\* The frontier entries of the cell n.
EntriesOf(h, n) == {x \in h : x[2] = n}

\* C22: the cost g(n) and the predecessor of a cell n change only when a
\* relaxation finds a new_g strictly below g(n), or n is unseen; a relaxation
\* with new_g equal to g(n) changes neither g(n), the predecessor nor the
\* frontier, so that the predecessor found first among equal costs is kept.
C22_StrictRelaxation ==
    [][\A alg \in FinderAlgorithm :
          IF Expands(alg)
          THEN LET e == heappop(pq[alg])
                   current == e[2]
               IN  \A n \in Cells :
                       LET edge == EdgeCost(current, n)
                           new_g == dist[alg][current] + edge.val
                           improves ==
                               /\ n \in AllowedMoves(current)
                               /\ ~edge.inf
                               /\ (n \notin DOMAIN dist[alg] \/ new_g < dist[alg][n])
                       IN  IF improves
                           THEN /\ dist'[alg][n] = new_g
                                /\ came_from'[alg][n] = current
                                /\ <<f_score(alg, new_g, n), n>> \in pq'[alg]
                           ELSE /\ (n \in DOMAIN dist'[alg]) = (n \in DOMAIN dist[alg])
                                /\ n \in DOMAIN dist[alg] =>
                                       /\ dist'[alg][n] = dist[alg][n]
                                       /\ came_from'[alg][n] = came_from[alg][n]
                                /\ EntriesOf(pq'[alg], n) = EntriesOf(pq[alg] \ {e}, n)
          ELSE pc[alg] # "idle" =>
                  /\ dist'[alg] = dist[alg]
                  /\ came_from'[alg] = came_from[alg]]_vars

\* A cell q has been expanded that reaches n at the cost n already had from
\* another cell, and n has kept the predecessor found first.
C22_Witness ==
    \E alg \in FinderAlgorithm : \E n \in DOMAIN dist[alg] : \E q \in DOMAIN dist[alg] :
        /\ pc[alg] = "loop"
        /\ n \in AllowedMoves(q)
        /\ came_from[alg][n] # q
        /\ came_from[alg][n] # None
        /\ ~EdgeCost(q, n).inf
        /\ dist[alg][q] + EdgeCost(q, n).val = dist[alg][n]
        /\ EntriesOf(pq[alg], q) = {}
        /\ \A m \in AllowedMoves(q) : Passable(m) => m \in DOMAIN dist[alg]
        /\ \E m \in DOMAIN came_from[alg] : came_from[alg][m] = q

\* The place of a step in the enumeration: up, down, left, right, then the
\* diagonals.
StepRank(d) ==
    CASE d = <<0, -1>> -> 1
      [] d = <<0, 1>> -> 2
      [] d = <<-1, 0>> -> 3
      [] d = <<1, 0>> -> 4
      [] d = <<-1, -1>> -> 5
      [] d = <<-1, 1>> -> 6
      [] d = <<1, -1>> -> 7
      [] d = <<1, 1>> -> 8
      [] OTHER -> 0

\* C23: get_neighbors enumerates the in-bounds passable neighbours of a cell,
\* the axial ones first in the order up, down, left, right, then the diagonal
\* ones in a fixed order, and these only when allow_diagonal is true.
C23_NeighborOrder ==
    (\E alg \in FinderAlgorithm : pc[alg] # "idle") =>
        \A pos \in Cells :
            LET nbrs == get_neighbors(pos, game_map, allow_diagonal)
                rank(i) == StepRank(<<nbrs[i][1] - pos[1], nbrs[i][2] - pos[2]>>)
            IN  /\ {nbrs[i] : i \in 1 .. Len(nbrs)}
                       = {v \in AllowedMoves(pos) : Passable(v)}
                /\ \A i \in 1 .. Len(nbrs) :
                       rank(i) \in (IF allow_diagonal THEN 1 .. 8 ELSE 1 .. 4)
                /\ \A i \in 1 .. Len(nbrs) - 1 : rank(i) < rank(i + 1)

\* A search with diagonal movement has expanded (1, 0), whose neighbours are
\* down, left, right and two diagonals.
C23_Witness ==
    /\ allow_diagonal
    /\ pc[DIJKSTRA] = "loop"
    /\ \E n \in DOMAIN came_from[DIJKSTRA] : came_from[DIJKSTRA][n] = <<1, 0>>
    /\ get_neighbors(<<1, 0>>, game_map, allow_diagonal)
           = << <<1, 1>>, <<0, 0>>, <<2, 0>>, <<0, 1>>, <<2, 1>> >>

\* The place of a frontier entry in the order of the pushes.
PushIndex(alg, entry) ==
    CHOOSE i \in 1 .. Len(push_log[alg]) :
        /\ push_log[alg][i] = entry
        /\ \A j \in i + 1 .. Len(push_log[alg]) : push_log[alg][j] # entry

\* The step pops an entry from the frontier of the search alg.
Pops(alg) == pc[alg] = "loop" /\ \E x \in pq[alg] : x \notin pq'[alg]

\* The entry the step pops.
Popped(alg) == CHOOSE x \in pq[alg] : x \notin pq'[alg]

\* C24: among frontier entries of equal f-score the one pushed earlier is
\* popped first: the tie is broken by the order of insertion, not by the
\* value of the position.
C24_InsertionOrderTieBreak ==
    [][\A alg \in FinderAlgorithm :
          Pops(alg) =>
              \A o \in pq[alg] \ {Popped(alg)} :
                  o[1] = Popped(alg)[1] =>
                      PushIndex(alg, Popped(alg)) < PushIndex(alg, o)]_vars

\* The stored f of the entry exceeds the best g of its cell, plus the
\* heuristic for ASTAR, by more than the tolerance.
StaleEntry(alg, entry) ==
    LET g == NumOfCost(dist[alg][entry[2]])
        best == IF alg = ASTAR THEN NumAdd(g, heuristic_func(entry[2])) ELSE g
    IN  NumLess(NumAdd(best, Tolerance), entry[1])

\* C25: a popped entry that is stale is discarded: nodes_expanded, the g-map
\* and the predecessor map stay as they were and no neighbour is relaxed;
\* nodes_expanded grows by one for each pop that is neither stale nor of the
\* goal, and by nothing else.
C25_StaleDiscarded ==
    [][\A alg \in FinderAlgorithm :
          LET processed == /\ Pops(alg)
                           /\ Popped(alg)[2] # goal
                           /\ ~StaleEntry(alg, Popped(alg))
          IN  /\ (Pops(alg) /\ Popped(alg)[2] # goal /\ StaleEntry(alg, Popped(alg))) =>
                     /\ nodes_expanded'[alg] = nodes_expanded[alg]
                     /\ dist'[alg] = dist[alg]
                     /\ came_from'[alg] = came_from[alg]
                     /\ pq'[alg] = pq[alg] \ {Popped(alg)}
              /\ nodes_expanded'[alg] =
                     nodes_expanded[alg] + (IF processed THEN 1 ELSE 0)]_vars

\* An entry was pushed and popped, is not for the goal and was not expanded:
\* it was discarded as stale.
C25_Witness ==
    \E alg \in FinderAlgorithm : \E i \in 1 .. Len(push_log[alg]) :
        /\ pc[alg] = "loop"
        /\ push_log[alg][i] \notin pq[alg]
        /\ push_log[alg][i][2] # goal
        /\ \A j \in 1 .. Len(pop_log[alg]) : pop_log[alg][j] # push_log[alg][i]
        /\ nodes_expanded[alg] = Len(pop_log[alg])

\* Sum of calculate_edge_cost over the consecutive cells of the path.
RECURSIVE PathSum(_)
PathSum(path) ==
    IF Len(path) < 2 THEN 0
    ELSE EdgeCost(path[1], path[2]).val + PathSum(Tail(path))

\* C26: the total_cost of every FinderResult returned is the sum of
\* calculate_edge_cost over the consecutive cells of its path.
C26_TotalCostIsPathSum ==
    \A alg \in FinderAlgorithm :
        pc[alg] = "returned" => result[alg].total_cost = PathSum(result[alg].path)

\* A search has returned a path of four cells or more.
C26_Witness ==
    \E alg \in FinderAlgorithm :
        /\ pc[alg] = "returned"
        /\ Len(result[alg].path) >= 4
        /\ result[alg].total_cost > 0

\* C27: within one search no cell is expanded more than once, so that
\* nodes_expanded never exceeds the number of passable cells of the map plus
\* the start cell.
C27_ExpandedOnce ==
    \A alg \in FinderAlgorithm :
        /\ \A i \in 1 .. Len(pop_log[alg]) : \A j \in 1 .. Len(pop_log[alg]) :
               pop_log[alg][i][2] = pop_log[alg][j][2] => i = j
        /\ nodes_expanded[alg] <= Cardinality({c \in Cells : Passable(c)} \cup {start})

\* C28: in every state of a search the predecessors form a tree rooted at the
\* start: g(start) is 0, the start has no predecessor, and the walk along the
\* predecessors from any cell with a g value ends at the start without visiting
\* a cell twice.
WalkToStart(alg, n) ==
    LET walk == WalkFrom(came_from[alg], n)
    IN  /\ walk[Len(walk)] = start
        /\ \A i \in 1 .. Len(walk) : \A j \in 1 .. Len(walk) : walk[i] = walk[j] => i = j

C28_PredecessorTree ==
    \A alg \in FinderAlgorithm :
        pc[alg] # "idle" =>
            /\ dist[alg][start] = 0
            /\ came_from[alg][start] = None
            /\ \A n \in DOMAIN dist[alg] :
                   /\ n \in DOMAIN came_from[alg]
                   /\ WalkEnds(came_from[alg], n, Cardinality(DOMAIN came_from[alg]))
                   /\ WalkToStart(alg, n)

\* C29: within one search the f-scores of the successive processed pops never
\* decrease: each expanded entry has an f-score greater than or equal to that of
\* every entry expanded before it.
C29_PoppedScoresMonotone ==
    \A alg \in FinderAlgorithm :
        \A i \in 1 .. Len(pop_log[alg]) : \A j \in 1 .. Len(pop_log[alg]) :
            i < j => ~NumLess(pop_log[alg][j][1], pop_log[alg][i][1])

\* C30: the tile to_grid gives for a screen point contains the point under the
\* diamond test: the point normalised against the centre to_iso gives for that
\* tile, at the same elevation, satisfies |u| + |v| <= 1.
C30_TileContainsPoint == iso_pc = "judged" => in_diamond

====
